---------------------------- MODULE Spec2Model ----------------------------
(***************************************************************************)
(* Model of igdm-sentiment-analysis: the directory validator, the escape   *)
(* repair decoder inside ConversationDirectory::parse, the conversation    *)
(* merger, the sentiment aggregator, and the plotter's data extraction,    *)
(* windowed smoothing and least-squares regression.                        *)
(*                                                                         *)
(* Bytes are integers 0..255, strings are sequences of bytes, Option<T> is *)
(* a sequence of length 0 (None) or 1 (Some), and a Rust panic is the      *)
(* outcome record [tag |-> "Panic", at |-> <place>].                       *)
(***************************************************************************)
EXTENDS Integers, Sequences, FiniteSets, TLC

VARIABLES
    pc,             \* position of the modelled run
    dir,            \* validator input: the path's state on disk
    validated,      \* validator output: Result<ConversationDirectory, io::Error>
    files,          \* parse input: what each message file holds
    parse_result,   \* parse output
    conversations,  \* merge input: the per-file ParsedConversations
    merged,         \* ParsedConversation returned by merge
    analysis,       \* AnalyzedConversation.analysis
    scorer_calls,   \* number of polarity_scores invocations made by analyze
    plot_idx,       \* index of the next plot type in main's loop
    plot_result,    \* outcome of the plot calls made so far
    data,           \* smoothen_wrt_time / regression input
    window_size,    \* smoothen_wrt_time input, in milliseconds
    series_out      \* smoothen_wrt_time / regression output

vars == <<pc, dir, validated, files, parse_result, conversations, merged,
          analysis, scorer_calls, plot_idx, plot_result, data, window_size,
          series_out>>

validatorVars == <<dir, validated>>
parseVars     == <<files, parse_result>>
pipelineVars  == <<conversations, merged, analysis, scorer_calls, plot_idx, plot_result>>
seriesVars    == <<data, window_size, series_out>>

None == <<>>
Some(v) == <<v>>

Panic(where) == [tag |-> "Panic", at |-> where]

\* Sequences over S of length 0..n.
SeqUpTo(S, n) == UNION {[1..k -> S] : k \in 0..n}

\* Subsets of S with at most n elements.
RECURSIVE SubsetsUpTo(_, _)
SubsetsUpTo(S, n) ==
    IF n = 0 THEN {{}}
    ELSE LET P == SubsetsUpTo(S, n - 1)
         IN  P \cup {p \cup {x} : p \in P, x \in S}

RECURSIVE Flatten(_)
Flatten(ss) == IF ss = <<>> THEN <<>> ELSE Head(ss) \o Flatten(Tail(ss))

Min(a, b) == IF a <= b THEN a ELSE b
Max(a, b) == IF a >= b THEN a ELSE b

(***************************************************************************)
(* Bytes and UTF-8                                                         *)
(***************************************************************************)
IsAsciiDigit(b) == b \in 48..57
\* u8::is_ascii_alphanumeric
IsAsciiAlphanumeric(b) == b \in 48..57 \/ b \in 65..90 \/ b \in 97..122
\* char::to_digit(16) on an ASCII byte
IsHexDigit(b) == b \in 48..57 \/ b \in 65..70 \/ b \in 97..102
HexVal(b) == IF b \in 48..57 THEN b - 48
             ELSE IF b \in 65..70 THEN b - 55
             ELSE b - 87

IsCont(b) == b \in 128..191

\* core::str::from_utf8's validation (used by String::from_utf8 and OsStr::to_str).
RECURSIVE Utf8Valid(_)
Utf8Valid(bs) ==
    IF bs = <<>> THEN TRUE
    ELSE LET b == bs[1]
             n == Len(bs)
             Rest(k) == SubSeq(bs, k + 1, n)
         IN  IF b < 128 THEN Utf8Valid(Rest(1))
             ELSE IF b \in 194..223
                  THEN n >= 2 /\ IsCont(bs[2]) /\ Utf8Valid(Rest(2))
             ELSE IF b \in 224..239
                  THEN /\ n >= 3
                       /\ CASE b = 224 -> bs[2] \in 160..191
                            [] b = 237 -> bs[2] \in 128..159
                            [] OTHER   -> IsCont(bs[2])
                       /\ IsCont(bs[3])
                       /\ Utf8Valid(Rest(3))
             ELSE IF b \in 240..244
                  THEN /\ n >= 4
                       /\ CASE b = 240 -> bs[2] \in 144..191
                            [] b = 244 -> bs[2] \in 128..143
                            [] OTHER   -> IsCont(bs[2])
                       /\ IsCont(bs[3])
                       /\ IsCont(bs[4])
                       /\ Utf8Valid(Rest(4))
             ELSE FALSE

(***************************************************************************)
(* Directory validator: TryFrom<PathBuf> for ConversationDirectory         *)
(***************************************************************************)
DOT == 46
PLUS == 43
MESSAGE_ == <<109, 101, 115, 115, 97, 103, 101, 95>>   \* "message_"
JSON == <<106, 115, 111, 110>>                         \* "json"
TXT == <<116, 120, 116>>                               \* "txt"
U32_MAX_DIGITS == <<52, 50, 57, 52, 57, 54, 55, 50, 57, 53>>  \* "4294967295"

\* Index of the last '.' of a file name, 0 when there is none.
RECURSIVE LastDot(_)
LastDot(name) ==
    IF name = <<>> THEN 0
    ELSE IF name[Len(name)] = DOT THEN Len(name)
    ELSE LastDot(SubSeq(name, 1, Len(name) - 1))

\* Path::file_stem: the name up to its last '.', the whole name when it has no
\* '.' or only a leading one; None for "..".
file_stem(name) ==
    IF name = <<>> \/ name = <<DOT, DOT>> THEN None
    ELSE IF LastDot(name) <= 1 THEN Some(name)
    ELSE Some(SubSeq(name, 1, LastDot(name) - 1))

\* Path::extension: what follows the last '.', None when file_stem is the whole name.
extension(name) ==
    IF name = <<>> \/ name = <<DOT, DOT>> THEN None
    ELSE IF LastDot(name) <= 1 THEN None
    ELSE Some(SubSeq(name, LastDot(name) + 1, Len(name)))

\* OsStr::to_str: Some only for valid UTF-8.
to_str(opt) == IF opt # None /\ Utf8Valid(opt[1]) THEN opt ELSE None

\* str::is_char_boundary
is_char_boundary(s, idx) ==
    idx = 0 \/ idx = Len(s) \/ (idx < Len(s) /\ ~IsCont(s[idx + 1]))

RECURSIVE StripLeadingZeros(_)
StripLeadingZeros(ds) ==
    IF ds # <<>> /\ ds[1] = 48 THEN StripLeadingZeros(Tail(ds)) ELSE ds

\* Lexicographic <= on digit strings of equal length.
RECURSIVE DigitsLeq(_, _)
DigitsLeq(a, b) ==
    IF a = <<>> THEN TRUE
    ELSE IF a[1] # b[1] THEN a[1] < b[1]
    ELSE DigitsLeq(Tail(a), Tail(b))

\* num.parse::<u32>().is_ok(): an optional '+', then one or more decimal digits
\* whose value does not overflow u32.
parse_u32_is_ok(num) ==
    LET digits == IF num # <<>> /\ num[1] = PLUS THEN Tail(num) ELSE num
        sig == StripLeadingZeros(digits)
    IN  /\ digits # <<>>
        /\ \A i \in 1..Len(digits) : IsAsciiDigit(digits[i])
        /\ \/ Len(sig) < Len(U32_MAX_DIGITS)
           \/ Len(sig) = Len(U32_MAX_DIGITS) /\ DigitsLeq(sig, U32_MAX_DIGITS)

\* The closure of the second filter_map: "keep", "skip", or "panic" when
\* split_at(8) falls inside a multi-byte character.
name_filter(name) ==
    LET stem == to_str(file_stem(name))
        ext  == to_str(extension(name))
    IN  IF stem = None THEN "skip"
        ELSE IF ext = None THEN "skip"
        ELSE LET s   == stem[1]
                 mid == IF Len(s) >= Len(MESSAGE_) THEN Len(MESSAGE_) ELSE Len(s)
             IN  IF ~is_char_boundary(s, mid) THEN "panic"
                 ELSE IF /\ SubSeq(s, 1, mid) = MESSAGE_
                         /\ ext[1] = JSON
                         /\ parse_u32_is_ok(SubSeq(s, mid + 1, Len(s)))
                      THEN "keep"
                      ELSE "skip"

try_from(d) ==
    IF d.is_dir
    THEN IF ~d.readable THEN [tag |-> "Err", kind |-> "Io"]
         ELSE LET paths == {e \in d.entries : e.kind # "err"}
              IN  IF \E e \in paths : name_filter(e.name) = "panic"
                  THEN Panic("split_at")
                  ELSE LET message_file_paths ==
                               {e \in paths : name_filter(e.name) = "keep"}
                       IN  IF message_file_paths = {}
                           THEN [tag |-> "Err", kind |-> "NotFound"]
                           ELSE [tag |-> "Ok",
                                 message_file_paths |-> message_file_paths]
    ELSE [tag |-> "Err", kind |-> "InvalidInput"]


MaxEntries == 2

\* File names the directory may hold.
NamePool ==
    { MESSAGE_ \o <<55, DOT>> \o JSON,                  \* message_7.json
      MESSAGE_ \o <<48, 48, 51, DOT>> \o JSON,          \* message_003.json
      <<109, 101, 115, 115, 97, 103, 101, 115, 95, 49, DOT>> \o JSON, \* messages_1.json
      MESSAGE_ \o <<97, DOT>> \o JSON,                  \* message_a.json
      MESSAGE_ \o <<49, DOT>> \o TXT,                   \* message_1.txt
      MESSAGE_ \o <<DOT>> \o JSON,                      \* message_.json
      MESSAGE_ \o <<PLUS, 49, DOT>> \o JSON,            \* message_+1.json
      MESSAGE_ \o <<45, 49, DOT>> \o JSON,              \* message_-1.json
      MESSAGE_ \o U32_MAX_DIGITS \o <<DOT>> \o JSON,    \* message_4294967295.json
      MESSAGE_ \o <<52, 50, 57, 52, 57, 54, 55, 50, 57, 54, DOT>> \o JSON, \* message_4294967296.json
      MESSAGE_ \o <<49>>,                               \* message_1
      <<109, 101, 115, 115, 97, 103, 101, 195, 169, DOT>> \o JSON,  \* "message" e-acute ".json"
      <<109, DOT>> \o JSON,                             \* m.json
      <<255, DOT>> \o JSON }                            \* a name that is not UTF-8

\* A directory entry: a regular file, a subdirectory, or an entry whose
\* read_dir item is an Err.
EntryPool == [name : NamePool, kind : {"file", "dir", "err"}]

DirStates ==
    {[is_dir |-> FALSE, readable |-> FALSE, entries |-> {}],
     [is_dir |-> TRUE, readable |-> FALSE, entries |-> {}]}
    \cup {[is_dir |-> TRUE, readable |-> TRUE, entries |-> E] :
            E \in {E \in SubsetsUpTo(EntryPool, MaxEntries) :
                     \A e1, e2 \in E : e1.name = e2.name => e1 = e2}}

Idle == [tag |-> "Idle"]

ValidateInit ==
    /\ pc = "validate"
    /\ dir \in DirStates
    /\ validated = Idle
    /\ files = <<>> /\ parse_result = Idle
    /\ conversations = <<>> /\ merged = Idle /\ analysis = Idle
    /\ scorer_calls = 0 /\ plot_idx = 0 /\ plot_result = Idle
    /\ data = <<>> /\ window_size = 0 /\ series_out = Idle

TryFrom ==
    /\ pc = "validate"
    /\ validated' = try_from(dir)
    /\ pc' = "validated"
    /\ UNCHANGED <<dir, parseVars, pipelineVars, seriesVars>>

ValidateNext == TryFrom

SpecValidate == ValidateInit /\ [][ValidateNext]_vars

\* A name of the form message_<one or more decimal digits>.json.
IsMessageFileName(name) ==
    LET n == Len(name)
        k == Len(MESSAGE_)
    IN  /\ n >= k + 1 + 1 + Len(JSON)
        /\ SubSeq(name, 1, k) = MESSAGE_
        /\ SubSeq(name, n - Len(JSON), n) = <<DOT>> \o JSON
        /\ \A i \in (k + 1)..(n - Len(JSON) - 1) : IsAsciiDigit(name[i])

\* C7: validation fails with NotADirectory (io InvalidInput) when the path is
\* not a directory; otherwise it returns exactly the entries that are files
\* named message_<digits>.json, skipping every other entry, and fails with
\* NoConversationFiles (io NotFound) when there is none.
ClaimC7_ValidatorExact ==
    pc = "validated" =>
        IF ~dir.is_dir
        THEN validated = [tag |-> "Err", kind |-> "InvalidInput"]
        ELSE dir.readable =>
             LET expected == {e \in dir.entries :
                                e.kind = "file" /\ IsMessageFileName(e.name)}
             IN  IF expected = {}
                 THEN validated = [tag |-> "Err", kind |-> "NotFound"]
                 ELSE validated = [tag |-> "Ok", message_file_paths |-> expected]

\* A validation that succeeded with a directory among the paths it returns.
WitnessC7_DirectoryEntryKept ==
    /\ pc = "validated"
    /\ validated.tag = "Ok"
    /\ \E e \in validated.message_file_paths : e.kind = "dir"

(***************************************************************************)
(* Escape repair decoder and ConversationDirectory::parse                  *)
(***************************************************************************)
BACKSLASH == 92
LOWER_U == 117
ZERO == 48

\* The condition of the `if` in the decode loop at (1-based) position i, with
\* Rust's left-to-right short-circuit evaluation and its bounds-checked
\* indexing: "match", "nomatch", or "panic" on an index past the buffer.
escape_condition(buffer, i) ==
    LET n == Len(buffer)
    IN  IF buffer[i] # BACKSLASH THEN "nomatch"
        ELSE IF i + 1 > n THEN "panic"
        ELSE IF buffer[i + 1] # LOWER_U THEN "nomatch"
        ELSE IF i + 2 > n THEN "panic"
        ELSE IF buffer[i + 2] # ZERO THEN "nomatch"
        ELSE IF i + 3 > n THEN "panic"
        ELSE IF buffer[i + 3] # ZERO THEN "nomatch"
        ELSE IF i + 4 > n THEN "panic"
        ELSE IF ~IsAsciiAlphanumeric(buffer[i + 4]) THEN "nomatch"
        ELSE IF i + 5 > n THEN "panic"
        ELSE IF ~IsAsciiAlphanumeric(buffer[i + 5]) THEN "nomatch"
        ELSE "match"

\* u8::from_str_radix(two bytes, 16): Some(value), or None on a non-hex digit.
from_str_radix_16(h1, h2) ==
    IF IsHexDigit(h1) /\ IsHexDigit(h2)
    THEN Some((16 * HexVal(h1) + HexVal(h2)) % 256)
    ELSE None

\* The decode loop: `for (i, c) in buffer.iter().enumerate()` from position i
\* with to_skip bytes still to skip and decoded_bytes built so far.
RECURSIVE decode_loop(_, _, _, _)
decode_loop(buffer, i, to_skip, decoded_bytes) ==
    IF i > Len(buffer) THEN [tag |-> "Ok", bytes |-> decoded_bytes]
    ELSE IF to_skip > 0
         THEN decode_loop(buffer, i + 1, to_skip - 1, decoded_bytes)
    ELSE LET cond == escape_condition(buffer, i)
         IN  IF cond = "panic" THEN Panic("index")
             ELSE IF cond = "match"
                  THEN LET hex == from_str_radix_16(buffer[i + 4], buffer[i + 5])
                       IN  IF hex = None THEN Panic("from_str_radix")
                           ELSE decode_loop(buffer, i + 1, 5,
                                            Append(decoded_bytes, hex[1]))
             ELSE decode_loop(buffer, i + 1, 0, Append(decoded_bytes, buffer[i]))

decode(buffer) == decode_loop(buffer, 1, 0, <<>>)

\* The closure parse maps over message_file_paths, for one file. json_ok is
\* serde_json's verdict on the decoded text (the JSON grammar is not modelled).
parse_file(file, json_ok) ==
    IF ~file.readable THEN [tag |-> "Err", kind |-> "Io"]
    ELSE LET d == decode(file.buffer)
         IN  IF d.tag = "Panic" THEN d
             ELSE IF ~Utf8Valid(d.bytes) THEN Panic("from_utf8")
             ELSE IF ~json_ok THEN [tag |-> "Err", kind |-> "Json"]
             ELSE [tag |-> "Ok", decoded_string |-> d.bytes]

MaxChunks == 2
MaxFiles == 2

\* Pieces the file contents are built from.
ChunkPool ==
    { <<BACKSLASH>>,                                     \* the prefixes of an escape
      <<BACKSLASH, LOWER_U>>,
      <<BACKSLASH, LOWER_U, ZERO>>,
      <<BACKSLASH, LOWER_U, ZERO, ZERO>>,
      <<BACKSLASH, LOWER_U, ZERO, ZERO, 102>>,
      <<BACKSLASH, LOWER_U, ZERO, ZERO, 99, 51>>,       \* \u00c3
      <<BACKSLASH, LOWER_U, ZERO, ZERO, 97, 57>>,       \* \u00a9
      <<BACKSLASH, LOWER_U, ZERO, ZERO, 102, 102>>,     \* \u00ff
      <<BACKSLASH, LOWER_U, ZERO, ZERO, 122, 122>>,     \* \u00zz
      <<BACKSLASH, LOWER_U, ZERO, ZERO, 45, 49>>,       \* \u00-1
      <<97>>,                                            \* a
      <<195>>,                                           \* raw bytes of e-acute
      <<169>> }

Buffers == {Flatten(cs) : cs \in SeqUpTo(ChunkPool, MaxChunks)}

FilePool ==
    {[readable |-> FALSE, buffer |-> <<>>]}
    \cup {[readable |-> TRUE, buffer |-> b] : b \in Buffers}

\* parse_result while the map over the files runs: the decoded strings
\* collected so far; the file at index Len(decoded) + 1 is next.
Running(decoded) == [tag |-> "Running", decoded |-> decoded]

ParseInit ==
    /\ pc = "parse"
    /\ files \in SeqUpTo(FilePool, MaxFiles) \ {<<>>}
    /\ parse_result = Running(<<>>)
    /\ dir = Idle /\ validated = Idle
    /\ conversations = <<>> /\ merged = Idle /\ analysis = Idle
    /\ scorer_calls = 0 /\ plot_idx = 0 /\ plot_result = Idle
    /\ data = <<>> /\ window_size = 0 /\ series_out = Idle

\* One iteration of the map over message_file_paths; collect() stops at the
\* first Err and `?` returns it, a panic unwinds out of parse.
ParseFile ==
    /\ pc = "parse"
    /\ Len(parse_result.decoded) < Len(files)
    /\ \E json_ok \in BOOLEAN :
         LET k == Len(parse_result.decoded) + 1
             r == parse_file(files[k], json_ok)
         IN  IF r.tag = "Ok"
             THEN /\ parse_result' = Running(Append(parse_result.decoded, r.decoded_string))
                  /\ pc' = pc
             ELSE /\ parse_result' = r @@ [file |-> k]
                  /\ pc' = "parsed"
    /\ UNCHANGED <<files, validatorVars, pipelineVars, seriesVars>>

\* All files decoded and deserialized: Ok(ParsedConversation::merge(..)).
ParseReturn ==
    /\ pc = "parse"
    /\ Len(parse_result.decoded) = Len(files)
    /\ parse_result' = [tag |-> "Ok", decoded |-> parse_result.decoded]
    /\ pc' = "parsed"
    /\ UNCHANGED <<files, validatorVars, pipelineVars, seriesVars>>

ParseNext == ParseFile \/ ParseReturn

SpecParse == ParseInit /\ [][ParseNext]_vars

\* Indices of the files whose closure has run.
Processed ==
    IF parse_result.tag \in {"Running", "Ok"}
    THEN 1..Len(parse_result.decoded)
    ELSE 1..parse_result.file

ProcessedBuffers == {files[k].buffer : k \in {k \in Processed : files[k].readable}}

\* The reference scan: replace backslash,u,0,0,h1,h2 by the byte 16*h1+h2 only
\* when h1 and h2 are hexadecimal digits, copy every other byte.
RECURSIVE RefDecode(_, _)
RefDecode(buffer, i) ==
    IF i > Len(buffer) THEN <<>>
    ELSE IF /\ i + 5 <= Len(buffer)
            /\ SubSeq(buffer, i, i + 3) = <<BACKSLASH, LOWER_U, ZERO, ZERO>>
            /\ IsHexDigit(buffer[i + 4])
            /\ IsHexDigit(buffer[i + 5])
         THEN <<16 * HexVal(buffer[i + 4]) + HexVal(buffer[i + 5])>>
                  \o RefDecode(buffer, i + 6)
         ELSE <<buffer[i]>> \o RefDecode(buffer, i + 1)

\* C1: a backslash that starts within the last 5 bytes of the buffer is
\* ordinary data: decoding finishes without a panic and the bytes from that
\* backslash on end the output unchanged.
ClaimC1_TruncatedTailCopied ==
    \A b \in ProcessedBuffers :
        \A p \in 1..Len(b) :
            (b[p] = BACKSLASH /\ Len(b) - p + 1 <= 5) =>
                LET r == decode(b)
                    tail == SubSeq(b, p, Len(b))
                IN  /\ r.tag = "Ok"
                    /\ Len(r.bytes) >= Len(tail)
                    /\ SubSeq(r.bytes, Len(r.bytes) - Len(tail) + 1, Len(r.bytes)) = tail

\* A parse that panicked on an index past a buffer ending in a backslash.
WitnessC1_TrailingBackslash ==
    /\ pc = "parsed"
    /\ parse_result.tag = "Panic"
    /\ parse_result.at = "index"
    /\ LET b == files[parse_result.file].buffer
       IN  b[Len(b)] = BACKSLASH

\* C2: the decoder's output equals the reference scan's on every buffer; a
\* non-hex alphanumeric pair such as \u00zz is copied and does not abort.
ClaimC2_DecodeEqualsReference ==
    \A b \in ProcessedBuffers :
        decode(b) = [tag |-> "Ok", bytes |-> RefDecode(b, 1)]

\* A parse that panicked unwrapping from_str_radix on a non-hex pair.
WitnessC2_NonHexPair ==
    /\ pc = "parsed"
    /\ parse_result.tag = "Panic"
    /\ parse_result.at = "from_str_radix"

\* C8: when the repaired bytes of a file are not valid UTF-8, parse returns an
\* InvalidEncoding error value to its caller; it does not panic and returns
\* no conversation.
ClaimC8_InvalidEncodingIsErr ==
    (\E b \in ProcessedBuffers :
        decode(b).tag = "Ok" /\ ~Utf8Valid(decode(b).bytes))
    => parse_result = [tag |-> "Err", kind |-> "InvalidEncoding",
                       file |-> parse_result.file]

\* A parse that panicked unwrapping String::from_utf8.
WitnessC8_InvalidUtf8 ==
    /\ pc = "parsed"
    /\ parse_result.tag = "Panic"
    /\ parse_result.at = "from_utf8"

(***************************************************************************)
(* Conversation merger: ParsedConversation::merge                          *)
(***************************************************************************)
\* " wasn't notified about this message because they're in quiet mode."
QUIET_MODE_SUFFIX ==
    <<32, 119, 97, 115, 110, 39, 116, 32, 110, 111, 116, 105,
      102, 105, 101, 100, 32, 97, 98, 111, 117, 116, 32, 116,
      104, 105, 115, 32, 109, 101, 115, 115, 97, 103, 101, 32,
      98, 101, 99, 97, 117, 115, 101, 32, 116, 104, 101, 121, 39,
      114, 101, 32, 105, 110, 32, 113, 117, 105, 101, 116, 32,
      109, 111, 100, 101, 46>>

\* str::ends_with
ends_with(s, suffix) ==
    /\ Len(s) >= Len(suffix)
    /\ SubSeq(s, Len(s) - Len(suffix) + 1, Len(s)) = suffix

\* Insert m behind every element whose key is <= m's.
RECURSIVE insert_by_key(_, _)
insert_by_key(sorted, m) ==
    IF sorted = <<>> THEN <<m>>
    ELSE IF sorted[Len(sorted)].timestamp_ms <= m.timestamp_ms
         THEN Append(sorted, m)
    ELSE Append(insert_by_key(SubSeq(sorted, 1, Len(sorted) - 1), m),
                sorted[Len(sorted)])

RECURSIVE sort_from(_, _)
sort_from(sorted, rest) ==
    IF rest = <<>> THEN sorted
    ELSE sort_from(insert_by_key(sorted, Head(rest)), Tail(rest))

\* A sort that puts a message in front of those of equal timestamp.
RECURSIVE insert_before_equal(_, _)
insert_before_equal(sorted, m) ==
    IF sorted = <<>> THEN <<m>>
    ELSE IF sorted[Len(sorted)].timestamp_ms < m.timestamp_ms
         THEN Append(sorted, m)
    ELSE Append(insert_before_equal(SubSeq(sorted, 1, Len(sorted) - 1), m),
                sorted[Len(sorted)])

RECURSIVE unstable_sort_from(_, _)
unstable_sort_from(sorted, rest) ==
    IF rest = <<>> THEN sorted
    ELSE unstable_sort_from(insert_before_equal(sorted, Head(rest)), Tail(rest))

sort_unstable_by_key(messages) == unstable_sort_from(<<>>, messages)

\* slice::sort_by_key(|message| message.timestamp_ms): a stable sort.
sort_by_key(messages) == sort_from(<<>>, messages)

all_messages(convs) == Flatten([i \in 1..Len(convs) |-> convs[i].messages])

is_quiet_notice(message) == ends_with(message.content, QUIET_MODE_SUFFIX)

merge(convs) ==
    LET participants == UNION {convs[i].participants : i \in 1..Len(convs)}
        nonempty == SelectSeq(all_messages(convs), LAMBDA m : m.content # <<>>)
        kept     == SelectSeq(nonempty, LAMBDA m : ~is_quiet_notice(m))
    IN  [participants |-> participants, messages |-> sort_by_key(kept)]

(***************************************************************************)
(* Sentiment aggregator: ParsedConversation::analyze                       *)
(***************************************************************************)
HI == <<104, 105>>                 \* "hi"
GREAT == <<103, 114, 101, 97, 116>>   \* "great"

\* Score fields are f64 values with at most four decimals; a field holds the
\* value in ten-thousandths, so equal fields are equal floats.
Score(pos, neu, neg, compound) ==
    [pos |-> pos, neu |-> neu, neg |-> neg, compound |-> compound]

\* SentimentIntensityAnalyzer::polarity_scores on the contents used here: a text
\* without a lexicon word scores neu = 1.0, "great" scores pos = 1.0 and
\* compound = 0.6249.
polarity_scores(content) ==
    IF content = GREAT THEN Score(10000, 0, 0, 6249)
    ELSE Score(0, 10000, 0, 0)

\* The inner closure of analyze: one scorer call, one (Message, Score) pair.
scored(message) == <<message, polarity_scores(message.content)>>

MapSeq(Op(_), seq) == [i \in 1..Len(seq) |-> Op(seq[i])]

\* The (Message, Score) vector analyze collects for one participant.
participant_scores(conv, participant) ==
    MapSeq(scored, SelectSeq(conv.messages,
                             LAMBDA m : m.sender_name = participant.name))

\* The scorer calls made for the participants in S: one per collected pair.
RECURSIVE calls_for(_, _)
calls_for(map, S) ==
    IF S = {} THEN 0
    ELSE LET p == CHOOSE p \in S : TRUE
         IN  Len(map[p]) + calls_for(map, S \ {p})

\* analyze: the participant -> scored messages map, and the number of
\* polarity_scores calls made while building it.
analyze(conv) ==
    LET map == [p \in conv.participants |-> participant_scores(conv, p)]
    IN  [analysis |-> map,
         calls |-> calls_for(map, conv.participants)]

(***************************************************************************)
(* Plotter: extract_data and the panics of AnalyzedConversation::plot      *)
(***************************************************************************)
SHOW_SMOOTHED == TRUE
SHOW_LSQR == TRUE
REMOVE_OUTLIERS == TRUE

PlotTypes == <<"Positive", "Negative", "Neutral", "Compound">>

NO_SIGNAL == Score(0, 10000, 0, 0)

outlier_filter(score) == IF REMOVE_OUTLIERS THEN score # NO_SIGNAL ELSE TRUE

component(score, plot_type) ==
    CASE plot_type = "Positive" -> score.pos
      [] plot_type = "Negative" -> score.neg
      [] plot_type = "Neutral"  -> score.neu
      [] plot_type = "Compound" -> score.compound

extract_data(an, plot_type) ==
    [p \in DOMAIN an |->
        MapSeq(LAMBDA ms : <<ms[1].timestamp_ms, component(ms[2], plot_type)>>,
               SelectSeq(an[p], LAMBDA ms : outlier_filter(ms[2])))]

\* The first statement of smoothen_wrt_time that touches the data:
\* `let mut window_start = data[0].0`, a bounds-checked index.
smoothen_start(points) ==
    IF Len(points) = 0 THEN Panic("index")
    ELSE [tag |-> "Ok", window_start |-> points[1][1]]

\* plot: the extraction and the two places that can panic, the unwrap of
\* min()/max() over all timestamps and the smoothing of each series. The
\* series go to the renderer, which is not modelled and taken to succeed.
plot(an, plot_type) ==
    LET d == extract_data(an, plot_type)
        times == UNION {{d[p][i][1] : i \in 1..Len(d[p])} : p \in DOMAIN d}
    IN  IF times = {} THEN Panic("unwrap")
        ELSE IF SHOW_SMOOTHED
                /\ \E p \in DOMAIN d : smoothen_start(d[p]).tag = "Panic"
             THEN Panic("index")
        ELSE [tag |-> "Ok", at |-> plot_type]

(***************************************************************************)
(* The run from the parsed files on: merge, analyze, the four plots        *)
(***************************************************************************)
MaxMsgs == 2

Names == {"A", "B"}
Timestamps == {1, 2}
Contents == {<<>>, HI, GREAT, <<66>> \o QUIET_MODE_SUFFIX}

MessagePool == [sender_name : Names, timestamp_ms : Timestamps, content : Contents]
ParticipantSets == SUBSET {[name |-> n] : n \in Names}

\* Two export files: the messages of a sequence split at any point, each file
\* with any participant list.
ConversationLists ==
    {<<[participants |-> p1, messages |-> SubSeq(ms, 1, k)],
       [participants |-> p2, messages |-> SubSeq(ms, k + 1, Len(ms))]>> :
        <<ms, k, p1, p2>> \in
            {t \in SeqUpTo(MessagePool, MaxMsgs) \X (0..MaxMsgs)
                   \X ParticipantSets \X ParticipantSets : t[2] <= Len(t[1])}}

Init ==
    /\ pc = "merge"
    /\ conversations \in ConversationLists
    /\ merged = Idle /\ analysis = Idle
    /\ scorer_calls = 0 /\ plot_idx = 1 /\ plot_result = Idle
    /\ dir = Idle /\ validated = Idle
    /\ files = <<>> /\ parse_result = Idle
    /\ data = <<>> /\ window_size = 0 /\ series_out = Idle

Merge ==
    /\ pc = "merge"
    /\ merged' = merge(conversations)
    /\ pc' = "analyze"
    /\ UNCHANGED <<conversations, analysis, scorer_calls, plot_idx, plot_result,
                   validatorVars, parseVars, seriesVars>>

Analyze ==
    /\ pc = "analyze"
    /\ LET a == analyze(merged)
       IN  /\ analysis' = a.analysis
           /\ scorer_calls' = a.calls
    /\ pc' = "plot"
    /\ UNCHANGED <<conversations, merged, plot_idx, plot_result,
                   validatorVars, parseVars, seriesVars>>

\* One iteration of main's loop over the plot types; a panic ends the run.
Plot ==
    /\ pc = "plot"
    /\ plot_idx <= Len(PlotTypes)
    /\ plot_result' = plot(analysis, PlotTypes[plot_idx])
    /\ IF plot_result'.tag = "Ok"
       THEN /\ plot_idx' = plot_idx + 1
            /\ pc' = IF plot_idx = Len(PlotTypes) THEN "done" ELSE "plot"
       ELSE /\ plot_idx' = plot_idx
            /\ pc' = "done"
    /\ UNCHANGED <<conversations, merged, analysis, scorer_calls,
                   validatorVars, parseVars, seriesVars>>

Next == Merge \/ Analyze \/ Plot

Spec == Init /\ [][Next]_vars

InputMessages ==
    conversations[1].messages \o conversations[2].messages

IsEmptyOrNotice(m) ==
    \/ Len(m.content) = 0
    \/ /\ Len(m.content) >= Len(QUIET_MODE_SUFFIX)
       /\ \A i \in 1..Len(QUIET_MODE_SUFFIX) :
            m.content[Len(m.content) - Len(QUIET_MODE_SUFFIX) + i] = QUIET_MODE_SUFFIX[i]

\* The kept messages listed timestamp by timestamp, each timestamp's messages
\* in input order.
RECURSIVE ByTimestamp(_, _)
ByTimestamp(kept, T) ==
    IF T = {} THEN <<>>
    ELSE LET t == CHOOSE t \in T : \A u \in T : t <= u
         IN  SelectSeq(kept, LAMBDA m : m.timestamp_ms = t)
                 \o ByTimestamp(kept, T \ {t})

\* C5: the merged messages are the concatenated inputs without the empty
\* messages and the quiet-mode notices, stably sorted by timestamp: sorted
\* non-decreasing, no empty content, no notice, nothing else lost, and equal
\* timestamps in input order.
ClaimC5_MergeIsStableSortedFilter ==
    pc # "merge" =>
        LET kept == SelectSeq(InputMessages, LAMBDA m : ~IsEmptyOrNotice(m))
            out  == merged.messages
        IN  /\ out = ByTimestamp(kept, {kept[i].timestamp_ms : i \in 1..Len(kept)})
            /\ \A i \in 1..Len(out) : ~IsEmptyOrNotice(out[i])
            /\ \A i, j \in 1..Len(out) :
                 i < j => out[i].timestamp_ms <= out[j].timestamp_ms

\* A merge that had to reorder: the second input message is older than the first.
WitnessC5_Reordered ==
    /\ pc = "analyze"
    /\ Len(InputMessages) = 2
    /\ InputMessages[1].timestamp_ms > InputMessages[2].timestamp_ms
    /\ merged.messages = <<InputMessages[2], InputMessages[1]>>

Analyzed == pc \in {"plot", "done"}

\* Positions in the merged conversation of the messages sent by participant p.
SentBy(p) ==
    {i \in 1..Len(merged.messages) : merged.messages[i].sender_name = p.name}

\* The j-th smallest element of a set of positions.
Nth(S, j) == CHOOSE i \in S : Cardinality({k \in S : k < i}) = j - 1

\* One key per participant, each mapped to its own messages in the merged
\* order, each paired with the score of its content.
PartitionedBySender ==
    /\ DOMAIN analysis = merged.participants
    /\ \A p \in merged.participants :
         /\ Len(analysis[p]) = Cardinality(SentBy(p))
         /\ \A j \in 1..Len(analysis[p]) :
              LET m == merged.messages[Nth(SentBy(p), j)]
              IN  analysis[p][j] = <<m, polarity_scores(m.content)>>

\* C6: the partition by sender, and the scorer invoked exactly once
\* per message of the conversation, every message being in exactly one
\* participant's sequence.
ClaimC6_EveryMessageScoredOnce ==
    Analyzed =>
        /\ PartitionedBySender
        /\ scorer_calls = Len(merged.messages)
        /\ \A i \in 1..Len(merged.messages) :
             Cardinality({p \in merged.participants : i \in SentBy(p)}) = 1

\* C6 for the participants' messages only: the partition by sender, and the
\* scorer invoked exactly once per message whose sender_name is a participant's
\* name; a message of any other sender is in no sequence and is not scored.
ClaimC6_ParticipantMessagesScoredOnce ==
    Analyzed =>
        /\ PartitionedBySender
        /\ scorer_calls =
             Cardinality({i \in 1..Len(merged.messages) :
                            \E p \in merged.participants : i \in SentBy(p)})
        /\ \A i \in 1..Len(merged.messages) :
             Cardinality({p \in merged.participants : i \in SentBy(p)}) =
                 IF [name |-> merged.messages[i].sender_name] \in merged.participants
                 THEN 1 ELSE 0

\* An analysed conversation holding a participant's message and a message
\* whose sender is no participant.
WitnessC6_SenderNotParticipant ==
    /\ pc = "plot"
    /\ Len(merged.messages) = 2
    /\ [name |-> merged.messages[1].sender_name] \in merged.participants
    /\ [name |-> merged.messages[2].sender_name] \notin merged.participants
    /\ scorer_calls = 1

\* C10: every series plot hands to the smoothing has a point, so plotting
\* never ends in an out-of-bounds index or a failed unwrap.
ClaimC10_PlotNeverPanics ==
    plot_result.tag # "Panic"

\* A conversation with a participant and no message to plot: min() is None.
WitnessC10_NoTimestamps ==
    /\ pc = "done"
    /\ merged.participants # {}
    /\ plot_result.tag = "Panic"
    /\ plot_result.at = "unwrap"

(***************************************************************************)
(* f64 arithmetic.  A natural number is its digits in base 2^15, least      *)
(* significant first, without leading zeros (zero is <<>>).  A finite f64   *)
(* is [kind |-> "fin", sign, mant, exp], the value sign * mant * 2^exp with *)
(* mant odd or zero; every operation rounds its exact result to 53          *)
(* significant bits, ties to even.  The exponent range of f64 is not        *)
(* modelled: no value here comes near 2^1024 or 2^-1022, and -0.0 is 0.0.   *)
(***************************************************************************)
MANTISSA_DIGITS == 53
LimbBits == 15
Limb == 2^LimbBits

RECURSIVE NatLimbs(_)
NatLimbs(n) == IF n = 0 THEN <<>> ELSE <<n % Limb>> \o NatLimbs(n \div Limb)

RECURSIVE LimbsNat(_)
LimbsNat(a) == IF a = <<>> THEN 0 ELSE a[1] + Limb * LimbsNat(Tail(a))

RECURSIVE Trim(_)
Trim(a) ==
    IF a # <<>> /\ a[Len(a)] = 0 THEN Trim(SubSeq(a, 1, Len(a) - 1)) ELSE a

LimbAt(a, i) == IF i <= Len(a) THEN a[i] ELSE 0

RECURSIVE AddFrom(_, _, _, _)
AddFrom(a, b, i, carry) ==
    IF i > Len(a) /\ i > Len(b)
    THEN IF carry = 0 THEN <<>> ELSE <<carry>>
    ELSE LET t == LimbAt(a, i) + LimbAt(b, i) + carry
         IN  <<t % Limb>> \o AddFrom(a, b, i + 1, t \div Limb)

LAdd(a, b) == AddFrom(a, b, 1, 0)

\* a - b for a >= b
RECURSIVE SubFrom(_, _, _, _)
SubFrom(a, b, i, borrow) ==
    IF i > Len(a) THEN <<>>
    ELSE LET t == LimbAt(a, i) - LimbAt(b, i) - borrow
         IN  <<t % Limb>> \o SubFrom(a, b, i + 1, IF t < 0 THEN 1 ELSE 0)

LSub(a, b) == Trim(SubFrom(a, b, 1, 0))

\* a < b
RECURSIVE LessFrom(_, _, _)
LessFrom(a, b, i) ==
    IF i = 0 THEN FALSE
    ELSE IF a[i] # b[i] THEN a[i] < b[i]
    ELSE LessFrom(a, b, i - 1)

LLess(a, b) ==
    IF Len(a) # Len(b) THEN Len(a) < Len(b) ELSE LessFrom(a, b, Len(a))

\* a * c for one digit c
RECURSIVE MulSmallFrom(_, _, _, _)
MulSmallFrom(a, c, i, carry) ==
    IF i > Len(a) THEN IF carry = 0 THEN <<>> ELSE <<carry>>
    ELSE LET t == a[i] * c + carry
         IN  <<t % Limb>> \o MulSmallFrom(a, c, i + 1, t \div Limb)

MulSmall(a, c) == IF c = 0 THEN <<>> ELSE MulSmallFrom(a, c, 1, 0)

ShlLimbs(a, k) == IF a = <<>> \/ k <= 0 THEN a ELSE [i \in 1..k |-> 0] \o a

RECURSIVE MulFrom(_, _, _)
MulFrom(a, b, i) ==
    IF i > Len(b) THEN <<>>
    ELSE LAdd(ShlLimbs(MulSmall(a, b[i]), i - 1), MulFrom(a, b, i + 1))

LMul(a, b) == MulFrom(a, b, 1)

\* a * 2^s
ShlBits(a, s) == ShlLimbs(MulSmall(a, 2^(s % LimbBits)), s \div LimbBits)

\* a divided by one digit c # 0, from a's top digit down: quotient digits and
\* the remainder.
RECURSIVE DivSmallFrom(_, _, _, _, _)
DivSmallFrom(a, c, i, q, r) ==
    IF i = 0 THEN [q |-> Trim(q), r |-> r]
    ELSE LET t == r * Limb + a[i]
         IN  DivSmallFrom(a, c, i - 1, <<t \div c>> \o q, t % c)

DivSmall(a, c) == DivSmallFrom(a, c, Len(a), <<>>, 0)

\* a \div 2^s, and whether a nonzero bit was shifted out.
ShrBits(a, s) ==
    LET k     == Min(s \div LimbBits, Len(a))
        upper == DivSmall(SubSeq(a, k + 1, Len(a)), 2^(s % LimbBits))
    IN  [q |-> upper.q,
         sticky |-> upper.r # 0 \/ \E i \in 1..k : a[i] # 0]

\* Number of significant bits.
BitLen(a) ==
    IF a = <<>> THEN 0
    ELSE (Len(a) - 1) * LimbBits
         + (CHOOSE k \in 1..LimbBits : 2^(k - 1) <= a[Len(a)] /\ a[Len(a)] < 2^k)

\* Number of zero bits below the lowest one bit of a # 0.
TrailingZeros(a) ==
    LET i == CHOOSE i \in 1..Len(a) : a[i] # 0 /\ \A j \in 1..(i - 1) : a[j] = 0
    IN  (i - 1) * LimbBits
        + (CHOOSE k \in 0..(LimbBits - 1) :
               a[i] % 2^k = 0 /\ a[i] % 2^(k + 1) # 0)

\* The largest digit d with b * d <= r, for r < b * Limb, fixed bit by bit.
RECURSIVE QuotDigit(_, _, _, _)
QuotDigit(r, b, bit, d) ==
    IF bit < 0 THEN d
    ELSE IF LLess(r, MulSmall(b, d + 2^bit))
         THEN QuotDigit(r, b, bit - 1, d)
         ELSE QuotDigit(r, b, bit - 1, d + 2^bit)

\* Long division of a by b # 0, digit by digit from a's top digit down.
RECURSIVE DivFrom(_, _, _, _, _)
DivFrom(a, b, i, q, r) ==
    IF i = 0 THEN [q |-> Trim(q), r |-> r]
    ELSE LET r2 == Trim(<<a[i]>> \o r)
             d  == QuotDigit(r2, b, LimbBits - 1, 0)
         IN  DivFrom(a, b, i - 1, <<d>> \o q, LSub(r2, MulSmall(b, d)))

LDivMod(a, b) == DivFrom(a, b, Len(a), <<>>, <<>>)

NaN == [kind |-> "nan"]
Inf(sign) == [kind |-> "inf", sign |-> sign]
Fin(sign, mant, exp) == [kind |-> "fin", sign |-> sign, mant |-> mant, exp |-> exp]
Zero == Fin(1, <<>>, 0)

\* The unique representation: the mantissa odd, or zero.
Canon(sign, mant, exp) ==
    IF mant = <<>> THEN Zero
    ELSE LET tz == TrailingZeros(mant)
         IN  Fin(sign, ShrBits(mant, tz).q, exp + tz)

\* Round sign * mant * 2^exp to 53 significant bits, ties to even.
Round(sign, mant, exp) ==
    IF BitLen(mant) <= MANTISSA_DIGITS THEN Canon(sign, mant, exp)
    ELSE LET k      == BitLen(mant) - MANTISSA_DIGITS
             low    == ShrBits(mant, k - 1)     \* 53 bits and the guard bit
             guard  == low.q[1] % 2
             hi     == ShrBits(low.q, 1).q
             up     == guard = 1 /\ (low.sticky \/ hi[1] % 2 = 1)
         IN  Canon(sign, IF up THEN LAdd(hi, <<1>>) ELSE hi, exp + k)

\* The exact sum and product of two finite values, not yet rounded.
ExactAdd(a, b) ==
    LET e  == Min(a.exp, b.exp)
        ma == ShlBits(a.mant, a.exp - e)
        mb == ShlBits(b.mant, b.exp - e)
    IN  IF a.sign = b.sign THEN Fin(a.sign, LAdd(ma, mb), e)
        ELSE IF LLess(ma, mb) THEN Fin(b.sign, LSub(mb, ma), e)
        ELSE Fin(a.sign, LSub(ma, mb), e)

ExactMul(a, b) == Fin(a.sign * b.sign, LMul(a.mant, b.mant), a.exp + b.exp)

RoundFin(v) == Round(v.sign, v.mant, v.exp)

IsZero(a) == a.kind = "fin" /\ a.mant = <<>>

\* a + b
FAdd(a, b) ==
    IF a.kind = "nan" \/ b.kind = "nan" THEN NaN
    ELSE IF a.kind = "inf"
         THEN IF b.kind = "inf" /\ b.sign # a.sign THEN NaN ELSE a
    ELSE IF b.kind = "inf" THEN b
    ELSE RoundFin(ExactAdd(a, b))

\* a * b
FMul(a, b) ==
    IF a.kind = "nan" \/ b.kind = "nan" THEN NaN
    ELSE IF a.kind = "inf" \/ b.kind = "inf"
         THEN IF IsZero(a) \/ IsZero(b) THEN NaN ELSE Inf(a.sign * b.sign)
    ELSE RoundFin(ExactMul(a, b))

\* -a
FNeg(a) ==
    IF a.kind = "nan" \/ IsZero(a) THEN a ELSE [a EXCEPT !.sign = -a.sign]

\* f64::mul_add: a * b + c with a single rounding.
mul_add(a, b, c) ==
    IF a.kind = "fin" /\ b.kind = "fin" /\ c.kind = "fin"
    THEN RoundFin(ExactAdd(ExactMul(a, b), c))
    ELSE FAdd(FMul(a, b), c)

\* a / b
FDiv(a, b) ==
    IF a.kind = "nan" \/ b.kind = "nan" THEN NaN
    ELSE IF a.kind = "inf"
         THEN IF b.kind = "inf" THEN NaN ELSE Inf(a.sign * b.sign)
    ELSE IF b.kind = "inf" THEN Zero
    ELSE IF IsZero(b) THEN IF IsZero(a) THEN NaN ELSE Inf(a.sign)
    ELSE IF IsZero(a) THEN Zero
    ELSE LET k  == Max(0, MANTISSA_DIGITS + 2 + BitLen(b.mant) - BitLen(a.mant))
             qr == LDivMod(ShlBits(a.mant, k), b.mant)
             \* the quotient with a sticky bit for the remainder below it
             m  == LAdd(ShlBits(qr.q, 1), IF qr.r = <<>> THEN <<>> ELSE <<1>>)
         IN  Round(a.sign * b.sign, m, a.exp - b.exp - k - 1)

\* `n as f64`
FromInt(n) == IF n < 0 THEN Round(-1, NatLimbs(-n), 0) ELSE Round(1, NatLimbs(n), 0)

\* `x as usize` for a finite x >= 0: truncation toward zero.
as_usize(x) ==
    IF x.exp >= 0 THEN LimbsNat(ShlBits(x.mant, x.exp))
    ELSE LimbsNat(ShrBits(x.mant, -x.exp).q)

(***************************************************************************)
(* Windowed smoothing: smoothen_wrt_time                                   *)
(***************************************************************************)
\* (window_start, window_sum / window_count as f64)
window_point(window_start, window_sum, window_count) ==
    <<window_start, FDiv(window_sum, FromInt(window_count))>>

\* The `for (time, score) in data` loop from index i on, and the push after it.
\* The data is sorted by timestamp, so time - window_start does not underflow.
RECURSIVE smoothen_loop(_, _, _, _, _, _, _)
smoothen_loop(points, size, i, window_start, window_sum, window_count, smoothed_scores) ==
    IF i > Len(points)
    THEN IF window_count > 0
         THEN Append(smoothed_scores,
                     window_point(window_start, window_sum, window_count))
         ELSE smoothed_scores
    ELSE LET time  == points[i][1]
             score == points[i][2]
         IN  IF window_count > 0 /\ time - window_start >= size
             THEN smoothen_loop(points, size, i + 1, time, Zero, 0,
                      Append(smoothed_scores,
                             window_point(window_start, window_sum, window_count)))
             ELSE smoothen_loop(points, size, i + 1, window_start,
                      FAdd(window_sum, score), window_count + 1, smoothed_scores)

smoothen_wrt_time(points, size) ==
    LET start == smoothen_start(points)
    IN  IF start.tag = "Panic" THEN start
        ELSE [tag |-> "Ok",
              series |-> smoothen_loop(points, size, 1, start.window_start,
                                       Zero, 0, <<>>)]

MaxPoints == 3
MaxTime == 3
MaxWindow == 3

SmoothScores == {FromInt(1), FromInt(2)}

\* Point sequences in ascending timestamp order, the order merge leaves.
SortedSeries ==
    {ps \in SeqUpTo((0..MaxTime) \X SmoothScores, MaxPoints) :
        \A i \in 1..(Len(ps) - 1) : ps[i][1] <= ps[i + 1][1]}

SmoothInit ==
    /\ pc = "smooth"
    /\ data \in SortedSeries
    /\ window_size \in 0..MaxWindow
    /\ series_out = Idle
    /\ dir = Idle /\ validated = Idle
    /\ files = <<>> /\ parse_result = Idle
    /\ conversations = <<>> /\ merged = Idle /\ analysis = Idle
    /\ scorer_calls = 0 /\ plot_idx = 0 /\ plot_result = Idle

Smoothen ==
    /\ pc = "smooth"
    /\ series_out' = smoothen_wrt_time(data, window_size)
    /\ pc' = "smoothed"
    /\ UNCHANGED <<data, window_size, validatorVars, parseVars, pipelineVars>>

SmoothNext == Smoothen

SpecSmooth == SmoothInit /\ [][SmoothNext]_vars

\* The partition of the claim: a block starts at the first point and at every
\* point whose timestamp is at least `size` past the block's start, and that
\* point is the first of the new block. Blocks are <<start, sum, count>>.
RECURSIVE Blocks(_, _, _, _)
Blocks(points, size, i, blocks) ==
    IF i > Len(points) THEN blocks
    ELSE LET n  == Len(blocks)
             pt == points[i]
         IN  IF n = 0 \/ pt[1] - blocks[n][1] >= size
             THEN Blocks(points, size, i + 1, Append(blocks, <<pt[1], pt[2], 1>>))
             ELSE Blocks(points, size, i + 1,
                         [blocks EXCEPT ![n] = <<@[1], FAdd(@[2], pt[2]), @[3] + 1>>])

BlockMeans(points, size) ==
    LET bs == Blocks(points, size, 1, <<>>)
    IN  [k \in 1..Len(bs) |-> <<bs[k][1], FDiv(bs[k][2], FromInt(bs[k][3]))>>]

SmoothedCase == pc = "smoothed" /\ Len(data) > 0 /\ window_size > 0

\* C3: the output is the means of the blocks of the partition in which every
\* input point is counted once, the point that opens a block included in
\* that block's mean, each at the block's opening timestamp.
ClaimC3_SmoothingIsPartitionMeans ==
    SmoothedCase =>
        series_out = [tag |-> "Ok", series |-> BlockMeans(data, window_size)]

\* Two points a window apart smoothed to the first point alone.
WitnessC3_OpeningPointDropped ==
    /\ SmoothedCase
    /\ Len(data) = 2
    /\ data[2][1] - data[1][1] >= window_size
    /\ series_out = [tag |-> "Ok", series |-> <<data[1]>>]

\* C4: the final window is always emitted: the output is not empty and its
\* last point is the window holding the last input point, so it carries the
\* last input point's timestamp when that point opens a window.
ClaimC4_FinalWindowEmitted ==
    SmoothedCase =>
        LET bs  == Blocks(data, window_size, 1, <<>>)
            out == series_out.series
        IN  /\ series_out.tag = "Ok"
            /\ Len(out) > 0
            /\ out[Len(out)][1] = bs[Len(bs)][1]

\* Three points, the last of them opening a window, smoothed to one point.
WitnessC4_LastPointOpensWindow ==
    /\ SmoothedCase
    /\ Len(data) = 3
    /\ data[2][1] - data[1][1] < window_size
    /\ data[3][1] - data[1][1] >= window_size
    /\ series_out.tag = "Ok"
    /\ Len(series_out.series) = 1

(***************************************************************************)
(* Least-squares regression: least_squares_linear_regression               *)
(***************************************************************************)
\* The fold over (x, y): <<sum_x, sum_y, sum_x_squared, sum_xy>>.
RECURSIVE fold_sums(_, _, _)
fold_sums(points, i, acc) ==
    IF i > Len(points) THEN acc
    ELSE LET x == FromInt(points[i][1])
             y == points[i][2]
         IN  fold_sums(points, i + 1,
                       <<FAdd(acc[1], x),
                         FAdd(acc[2], y),
                         mul_add(x, x, acc[3]),
                         mul_add(x, y, acc[4])>>)

\* let m = n.mul_add(sum_xy, -(sum_x * sum_y)) / n.mul_add(sum_x_squared, -(sum_x * sum_x));
\* sums is <<sum_x, sum_y, sum_x_squared, sum_xy>>.
slope(n, sums) ==
    FDiv(mul_add(n, sums[4], FNeg(FMul(sums[1], sums[2]))),
         mul_add(n, sums[3], FNeg(FMul(sums[1], sums[1]))))

\* let b = m.mul_add(-sum_x, sum_y) / n;
intercept(m, n, sums) == FDiv(mul_add(m, FNeg(sums[1]), sums[2]), n)

\* x.map(|x| (x as usize, x.mul_add(m, b))).collect(); m and b are kept
\* beside the series for the properties.
regression_line(points, m, b) ==
    [tag |-> "Ok", m |-> m, b |-> b,
     series |-> [i \in 1..Len(points) |->
                    <<as_usize(FromInt(points[i][1])),
                      mul_add(FromInt(points[i][1]), m, b)>>]]

regression_from_slope(points, n, sums, m) ==
    regression_line(points, m, intercept(m, n, sums))

regression_from_sums(points, n, sums) ==
    regression_from_slope(points, n, sums, slope(n, sums))

least_squares_linear_regression(points) ==
    regression_from_sums(points, FromInt(Len(points)),
                         fold_sums(points, 1, <<Zero, Zero, Zero, Zero>>))

MaxRegPoints == 2

\* Small timestamps and two around 2^26, whose squares need 53 bits.
RegTimes == {0, 1, 2, 67108864, 67108865}

\* The points of the line y = 2x + 3 and one point off it per timestamp.
RegPoints ==
    {<<t, FromInt(2 * t + 3)>> : t \in RegTimes} \cup {<<t, FromInt(1)>> : t \in RegTimes}

RegressInit ==
    /\ pc = "regress"
    /\ data \in SeqUpTo(RegPoints, MaxRegPoints)
    /\ window_size = 0
    /\ series_out = Idle
    /\ dir = Idle /\ validated = Idle
    /\ files = <<>> /\ parse_result = Idle
    /\ conversations = <<>> /\ merged = Idle /\ analysis = Idle
    /\ scorer_calls = 0 /\ plot_idx = 0 /\ plot_result = Idle

Regress ==
    /\ pc = "regress"
    /\ series_out' = least_squares_linear_regression(data)
    /\ pc' = "regressed"
    /\ UNCHANGED <<data, window_size, validatorVars, parseVars, pipelineVars>>

RegressNext == Regress

SpecRegress == RegressInit /\ [][RegressNext]_vars

\* |v - w| <= 10^-6, computed exactly, for a finite f64 v and a finite value w.
Close(v, w) ==
    /\ v.kind = "fin"
    /\ w.kind = "fin"
    /\ LET d == ExactAdd(v, [w EXCEPT !.sign = -w.sign])
       IN  \/ d.mant = <<>>
           \/ /\ d.exp < 0
              /\ ~LLess(ShlBits(<<1>>, -d.exp),
                        LMul(d.mant, NatLimbs(10^6)))

OnTheLine ==
    /\ pc = "regressed"
    /\ \A i \in 1..Len(data) : data[i][2] = FromInt(2 * data[i][1] + 3)
    /\ \E i, j \in 1..Len(data) : data[i][1] # data[j][1]

\* C9: for points on the line y = 2x + 3 with at least two distinct
\* timestamps the slope is 2 and the intercept is 3 (within the floating
\* tolerance 1e-6), and the output has one point per input point, in order, with
\* the input's timestamp and the value m*x + b.
ClaimC9_RegressionRecoversLine ==
    OnTheLine
    => /\ Close(series_out.m, FromInt(2))
       /\ Close(series_out.b, FromInt(3))
       /\ Len(series_out.series) = Len(data)
       /\ \A i \in 1..Len(data) :
            /\ series_out.series[i][1] = data[i][1]
            /\ Close(series_out.series[i][2],
                     ExactAdd(ExactMul(series_out.m, FromInt(data[i][1])),
                              series_out.b))

\* The regression has run on points of the line taken at large timestamps.
WitnessC9_LargeTimestamps ==
    OnTheLine /\ \A i \in 1..Len(data) : data[i][1] >= 67108864

=============================================================================
